---- MODULE Spec2Model ----
(***************************************************************************)
(* google-translate-cli (src/src/main.rs): one run of the program.         *)
(*                                                                         *)
(* main() calls parse_input() and then translate().  A Rust String is a    *)
(* sequence of one-character strings, so that joining, substring search,  *)
(* the regular expression and trim() are computed character by character. *)
(***************************************************************************)
EXTENDS Integers, Sequences, FiniteSets, TLC

VARIABLES
    args,        \* env::args().skip(1): the argument list, a sequence of Strings
    env,         \* the process environment: the three variables the program reads
    pc,          \* position of main(): "parse_input", "translate", "send", "json", "exit"
    input,       \* the Input returned by parse_input (NoInput before that)
    access_key,  \* translate's local access_key (KeyNotRead before it is read)
    requests,    \* the bodies of the HTTP POSTs handed to send(), in order
    response,    \* what the network did with the request
    stdout,      \* the println! calls made so far, each a tuple of its pieces
    status       \* <<>> while running, <<code>> once the process has ended

vars == <<args, env, pc, input, access_key, requests, response, stdout, status>>

-----------------------------------------------------------------------------
(* Bounds of the model *)

\* longest argument list drawn from Tokens
MaxArgs == 3

\* longest `translations` list of a response envelope
MaxTranslations == 2

-----------------------------------------------------------------------------
(* Program constants *)

\* exit status of a Rust process whose main thread panicked
PANIC_STATUS == 101

HELP_TEXT == "To translate something something using google translate, ..."
NO_INPUT_MSG == "No input language provided. Type --help to see allowed languages"
NO_OUTPUT_MSG == "No output language provided. Type --help to see allowed languages"
INPUT_NOT_ALLOWED_MSG == "Input language is not allowed. Type --help to see allowed languages"
OUTPUT_NOT_ALLOWED_MSG == "Output language is not allowed. Type --help to see allowed languages"
NO_KEY_MSG == "A Google access key is required. See this for how to create one: https://cloud.google.com/translate/docs/setup"
API_ERROR_PREFIX == "There was the following error with the API call: "

allowed_languages == {
    <<"a","f">>, <<"s","q">>, <<"a","m">>, <<"a","r">>, <<"h","y">>, <<"a","z">>, <<"e","u">>,
    <<"b","e">>, <<"b","n">>, <<"b","s">>, <<"b","g">>, <<"c","a">>, <<"c","e","b">>,
    <<"z","h","-","C","N">>, <<"z","h">>, <<"z","h","-","T","W">>, <<"c","o">>, <<"h","r">>,
    <<"c","s">>, <<"d","a">>, <<"n","l">>, <<"e","n">>, <<"e","o">>, <<"e","t">>, <<"f","i">>,
    <<"f","r">>, <<"f","y">>, <<"g","l">>, <<"k","a">>, <<"d","e">>, <<"e","l">>, <<"g","u">>,
    <<"h","t">>, <<"h","a">>, <<"h","a","w">>, <<"h","e">>, <<"i","w">>, <<"h","i">>,
    <<"h","m","n">>, <<"h","u">>, <<"i","s">>, <<"i","g">>, <<"i","d">>, <<"g","a">>,
    <<"i","t">>, <<"j","a">>, <<"j","v">>, <<"k","n">>, <<"k","k">>, <<"k","m">>, <<"r","w">>,
    <<"k","o">>, <<"k","u">>, <<"k","y">>, <<"l","o">>, <<"l","a">>, <<"l","v">>, <<"l","t">>,
    <<"l","b">>, <<"m","k">>, <<"m","g">>, <<"m","s">>, <<"m","l">>, <<"m","t">>, <<"m","i">>,
    <<"m","r">>, <<"m","n">>, <<"m","y">>, <<"n","e">>, <<"n","o">>, <<"n","y">>, <<"o","r">>,
    <<"p","s">>, <<"f","a">>, <<"p","l">>, <<"p","t">>, <<"p","a">>, <<"r","o">>, <<"r","u">>,
    <<"s","m">>, <<"g","d">>, <<"s","r">>, <<"s","t">>, <<"s","n">>, <<"s","d">>, <<"s","i">>,
    <<"s","k">>, <<"s","l">>, <<"s","o">>, <<"e","s">>, <<"s","u">>, <<"s","w">>, <<"s","v">>,
    <<"t","l">>, <<"t","g">>, <<"t","a">>, <<"t","t">>, <<"t","e">>, <<"t","h">>, <<"t","r">>,
    <<"t","k">>, <<"u","k">>, <<"u","r">>, <<"u","g">>, <<"u","z">>, <<"v","i">>, <<"c","y">>,
    <<"x","h">>, <<"y","i">>, <<"y","o">>, <<"z","u">>
}

-----------------------------------------------------------------------------
(* Strings *)

LowerLetters ==
    {"a","b","c","d","e","f","g","h","i","j","k","l","m",
     "n","o","p","q","r","s","t","u","v","w","x","y","z"}

\* changed: the class of every character that is not whitespace
IsLower_nonspace(c) == c \notin {" ", "\t", "\n", "\r", "\f"}

\* the regex class [a-z]
IsLower(c) == c \in LowerLetters

\* the regex class \s and the characters str::trim() strips
IsSpace(c) == c \in {" ", "\t", "\n", "\r", "\f"}

\* collect::<Vec<String>>().join(" ")
RECURSIVE join(_)
join(a) ==
    IF a = <<>> THEN <<>>
    ELSE IF Len(a) = 1 THEN a[1]
    ELSE a[1] \o <<" ">> \o join(Tail(a))

\* the literal lit stands in s at position p
HasAt(s, p, lit) ==
    /\ p + Len(lit) - 1 <= Len(s)
    /\ SubSeq(s, p, p + Len(lit) - 1) = lit

\* str::contains
contains(s, pat) == \E p \in 1..(Len(s) + 1) : HasAt(s, p, pat)

\* str::trim
RECURSIVE trim_start(_)
trim_start(s) == IF s # <<>> /\ IsSpace(s[1]) THEN trim_start(Tail(s)) ELSE s
RECURSIVE trim_end(_)
trim_end(s) ==
    IF s # <<>> /\ IsSpace(s[Len(s)]) THEN trim_end(SubSeq(s, 1, Len(s) - 1)) ELSE s
trim(s) == trim_end(trim_start(s))

-----------------------------------------------------------------------------
(* The environment *)

\* env::var_os gives None, or Some(OsString) that is valid Unicode or not
None == [os |-> "None", val |-> <<>>]
NotUnicode == [os |-> "NotUnicode", val |-> <<>>]
Some(s) == [os |-> "Some", val |-> s]

get_optional_env_var(key) ==
    IF env[key].os = "Some" THEN env[key].val ELSE <<>>

-----------------------------------------------------------------------------
\* The regular expression of parse_input (line 186) is, in order: ^, the optional
\* group "-i " [a-z]+ (capturing input_language), the optional group \s* "-o "
\* [a-z]+ (capturing output_language), the group text (any run of ".") and $.
\* Both optional groups and both + are greedy, and nothing a shorter choice
\* leaves over can start the next group (a letter follows a shorter [a-z]+, and
\* "-i " and \s* "-o " cannot start at the same place), so the leftmost-first
\* match is the greedy one whenever any match exists.  The text group followed
\* by $ matches exactly the strings without a line feed, and every other choice
\* leaves a longer tail, so no match exists when the greedy tail holds one.

\* [a-z]+ from position p: the position after the longest run of letters
RECURSIVE LettersEnd(_, _)
LettersEnd(s, p) ==
    IF p <= Len(s) /\ IsLower(s[p]) THEN LettersEnd(s, p + 1) ELSE p

\* \s* from position p: the position after the longest run of whitespace
RECURSIVE SpaceEnd(_, _)
SpaceEnd(s, p) ==
    IF p <= Len(s) /\ IsSpace(s[p]) THEN SpaceEnd(s, p + 1) ELSE p

\* the optional group "-i " [a-z]+ at the start of s
InputGroup(s) ==
    LET e == LettersEnd(s, 4)
    IN  IF HasAt(s, 1, <<"-", "i", " ">>) /\ e > 4
        THEN [some |-> TRUE, str |-> SubSeq(s, 4, e - 1), end |-> e]
        ELSE [some |-> FALSE, str |-> <<>>, end |-> 1]

\* the optional group \s* "-o " [a-z]+ at position p of s
OutputGroup(s, p) ==
    LET q == SpaceEnd(s, p)
        e == LettersEnd(s, q + 3)
    IN  IF HasAt(s, q, <<"-", "o", " ">>) /\ e > q + 3
        THEN [some |-> TRUE, str |-> SubSeq(s, q + 3, e - 1), end |-> e]
        ELSE [some |-> FALSE, str |-> <<>>, end |-> p]

\* the text group up to $: "." is any character but the line feed
DotStar(t) == \A k \in 1..Len(t) : t[k] # "\n"

\* re.captures(&args)
captures(s) ==
    LET i == InputGroup(s)
        o == OutputGroup(s, i.end)
        t == SubSeq(s, o.end, Len(s))
    IN  IF DotStar(t)
        THEN [some |-> TRUE, input_language |-> i, output_language |-> o, text |-> t]
        ELSE [some |-> FALSE, input_language |-> [some |-> FALSE, str |-> <<>>, end |-> 1],
              output_language |-> [some |-> FALSE, str |-> <<>>, end |-> 1], text |-> <<>>]

-----------------------------------------------------------------------------
(* parse_input *)

\* lines 195-217: the environment's languages, overridden by the captures
Resolve(a) ==
    LET val == captures(a)
    IN  [input_language |->
            IF val.some /\ val.input_language.some
            THEN val.input_language.str
            ELSE get_optional_env_var("GT_INPUT_LANGUAGE"),
         output_language |->
            IF val.some /\ val.output_language.some
            THEN val.output_language.str
            ELSE get_optional_env_var("GT_OUTPUT_LANGUAGE"),
         text |-> IF val.some THEN trim(val.text) ELSE <<>>]

\* changed: a code is accepted when an allowed code starts with it
IsAllowed_prefix(language) ==
    \E i \in allowed_languages :
        Len(language) <= Len(i) /\ SubSeq(i, 1, Len(language)) = language

\* allowed_languages.iter().any(|&i| i == language)
IsAllowed(language) == \E i \in allowed_languages : i = language

\* changed: both output checks come before the input checks
Validate_output_first(in) ==
    IF Len(in.output_language) = 0 THEN NO_OUTPUT_MSG
    ELSE IF \A i \in allowed_languages : i # in.output_language
         THEN OUTPUT_NOT_ALLOWED_MSG
    ELSE IF Len(in.input_language) = 0 THEN NO_INPUT_MSG
    ELSE IF \A i \in allowed_languages : i # in.input_language
         THEN INPUT_NOT_ALLOWED_MSG
    ELSE ""

\* lines 219-237: the message of the first check that fails, "" when all pass
Validate(in) ==
    IF Len(in.input_language) = 0 THEN NO_INPUT_MSG
    ELSE IF Len(in.output_language) = 0 THEN NO_OUTPUT_MSG
    ELSE IF ~IsAllowed(in.input_language) THEN INPUT_NOT_ALLOWED_MSG
    ELSE IF ~IsAllowed(in.output_language) THEN OUTPUT_NOT_ALLOWED_MSG
    ELSE ""

NoInput == [input_language |-> <<>>, output_language |-> <<>>, text |-> <<>>]
KeyNotRead == [read |-> FALSE, val |-> <<>>]
NoResponse == [kind |-> "none", translations |-> <<>>]

\* println!(pieces) followed by exit(code)
PrintAndExit(pieces, code) ==
    /\ stdout' = Append(stdout, pieces)
    /\ status' = <<code>>
    /\ pc' = "exit"

\* changed: --help is looked for at the start of the arguments only
wants_help_first(a) ==
    Len(a) >= 6 /\ SubSeq(a, 1, 6) = <<"-", "-", "h", "e", "l", "p">>

\* line 191: args.contains("--help")
wants_help(a) == contains(a, <<"-", "-", "h", "e", "l", "p">>)

\* lines 191-192, 43-167: --help asked for, print_help() prints and exits with 1
print_help ==
    /\ pc = "parse_input"
    /\ wants_help(join(args))
    /\ PrintAndExit(<<HELP_TEXT>>, 1)
    /\ UNCHANGED <<args, env, input, access_key, requests, response>>

\* parse_input() without --help: a usage error, or the Input
parse_input ==
    /\ pc = "parse_input"
    /\ ~wants_help(join(args))
    /\ LET in == Resolve(join(args))
       IN  IF Validate(in) # ""
           THEN /\ PrintAndExit(<<Validate(in)>>, 1)
                /\ UNCHANGED input
           ELSE /\ input' = in
                /\ pc' = "translate"
                /\ UNCHANGED <<stdout, status>>
    /\ UNCHANGED <<args, env, access_key, requests, response>>

-----------------------------------------------------------------------------
(* translate *)

\* changed: source and target are exchanged
Body_swapped(in) ==
    [source |-> in.output_language, target |-> in.input_language, q |-> in.text]

\* lines 253-257: the HashMap sent as JSON
Body(in) == [source |-> in.input_language, target |-> in.output_language, q |-> in.text]

\* lines 247-265: read the key; without one exit 1, else POST the body and block
translate ==
    /\ pc = "translate"
    /\ access_key' = [read |-> TRUE, val |-> get_optional_env_var("GOOGLE_ACCESS_KEY")]
    /\ IF Len(access_key'.val) = 0
       THEN /\ PrintAndExit(<<NO_KEY_MSG>>, 1)
            /\ UNCHANGED requests
       ELSE /\ requests' = Append(requests, Body(input))
            /\ pc' = "send"
            /\ UNCHANGED <<stdout, status>>
    /\ UNCHANGED <<args, env, input, response>>

\* a panic: nothing goes to stdout, the process ends with status 101
Panic ==
    /\ status' = <<PANIC_STATUS>>
    /\ pc' = "exit"
    /\ UNCHANGED stdout

\* line 265-266: send() returns Err (no connection, timeout, ...) and unwrap() panics
send_err ==
    /\ pc = "send"
    /\ response' = [kind |-> "send_error", translations |-> <<>>]
    /\ Panic
    /\ UNCHANGED <<args, env, input, access_key, requests>>

\* line 265-266: send() returns Ok(Response): status line and headers have arrived
send_ok ==
    /\ pc = "send"
    /\ response' = [kind |-> "head", translations |-> <<>>]
    /\ pc' = "json"
    /\ UNCHANGED <<args, env, input, access_key, requests, stdout, status>>

TranslatedTexts == {"Bonjour", "Hola"}

\* the envelopes {data: {translations: [{translatedText}, ...]}}
Envelopes == UNION {[1..n -> TranslatedTexts] : n \in 0..MaxTranslations}

\* changed: the result of json() is unwrapped as the result of send() is
json_err_unwrap(e) ==
    /\ pc = "json"
    /\ response' = [kind |-> e, translations |-> <<>>]
    /\ status' = <<PANIC_STATUS>>
    /\ pc' = "exit"
    /\ UNCHANGED <<args, env, input, access_key, requests, stdout>>

\* the ways Response::json() returns Err: the body could not be read, or it is
\* not JSON of the shape Ip (an error payload, for one)
JsonErrors == {"body_error", "shape_mismatch"}

\* lines 267, 271: json() returns Err(e), which is printed; main returns normally
json_err(e) ==
    /\ pc = "json"
    /\ response' = [kind |-> e, translations |-> <<>>]
    /\ PrintAndExit(<<API_ERROR_PREFIX, e>>, 0)
    /\ UNCHANGED <<args, env, input, access_key, requests>>

\* lines 267, 270: json() returns Ok(Ip); translations[0] panics on an empty Vec
json_ok(ts) ==
    /\ pc = "json"
    /\ response' = [kind |-> "envelope", translations |-> ts]
    /\ IF Len(ts) = 0
       THEN Panic
       ELSE PrintAndExit(<<ts[1]>>, 0)
    /\ UNCHANGED <<args, env, input, access_key, requests>>

-----------------------------------------------------------------------------
(* Runs *)

S_i == <<"-", "i">>
S_o == <<"-", "o">>
S_en == <<"e", "n">>
S_fr == <<"f", "r">>
S_de == <<"d", "e">>
S_EN == <<"E", "N">>
S_zh == <<"z", "h">>
S_zhCN == <<"z", "h", "-", "C", "N">>
S_hello == <<"h", "e", "l", "l", "o">>
S_world == <<"w", "o", "r", "l", "d">>
S_hola == <<"h", "o", "l", "a">>
S_help == <<"-", "-", "h", "e", "l", "p">>
S_xhelps == <<"x", "-", "-", "h", "e", "l", "p", "s">>
S_lines == <<"a", "\n", "b">>
S_empty == <<>>
S_key == <<"k">>

\* single arguments the argument lists are built from
Tokens == {S_i, S_o, S_en, S_fr, S_zhCN, S_hello, S_help, S_xhelps, S_lines, S_empty}

\* the argument lists of the specification's examples, and longer lists with
\* both flags
Examples ==
    {<<S_i, S_en, S_o, S_fr, S_hello, S_world>>,
     <<S_i, S_de, S_hola>>,
     <<S_hello>>,
     <<S_i, S_zhCN, S_hello>>,
     <<S_i, S_en, S_o, S_fr>>,
     <<S_i, S_en, S_o, S_fr, S_help>>,
     <<S_i, S_en, S_o, S_fr, S_lines>>,
     <<S_o, S_fr, S_i, S_en, S_hello>>,
     <<S_i, S_en, S_hello, S_o, S_fr>>,
     <<S_hello, S_i, S_en, S_o, S_fr>>,
     <<S_i, S_en, S_o, S_fr, S_o, S_de, S_hello>>}

ArgLists == UNION {[1..n -> Tokens] : n \in 0..MaxArgs} \cup Examples

Start ==
    /\ pc = "parse_input"
    /\ input = NoInput
    /\ access_key = KeyNotRead
    /\ requests = <<>>
    /\ response = NoResponse
    /\ stdout = <<>>
    /\ status = <<>>

Init ==
    /\ args \in ArgLists
    /\ env \in [GT_INPUT_LANGUAGE : {None, NotUnicode, Some(S_en), Some(S_zhCN)},
                GT_OUTPUT_LANGUAGE : {None, Some(S_fr), Some(S_EN)},
                GOOGLE_ACCESS_KEY : {None, Some(S_key)}]
    /\ Start

\* strings that are not on the allow-list: other case, a prefix, an extension,
\* a padded code, an unknown code
OtherCodes ==
    {S_EN, <<"E", "n">>, <<"c", "e">>, <<"e", "n", "g">>, <<"z", "h", "-", "c", "n">>,
     <<" ", "e", "n">>, <<"x", "x">>}

LangCodes == allowed_languages \cup OtherCodes

\* every code in either position, from the environment or from the flags
InitLang ==
    /\ \/ /\ args \in {<<S_hello>>, <<S_help>>}
          /\ env \in [GT_INPUT_LANGUAGE : {Some(c) : c \in LangCodes},
                      GT_OUTPUT_LANGUAGE : {Some(c) : c \in LangCodes},
                      GOOGLE_ACCESS_KEY : {None, Some(S_key)}]
       \/ /\ args \in {<<S_i, c1, S_o, c2, S_hello>> : c1, c2 \in LangCodes}
          /\ env = [GT_INPUT_LANGUAGE |-> None,
                    GT_OUTPUT_LANGUAGE |-> None,
                    GOOGLE_ACCESS_KEY |-> Some(S_key)]
    /\ Start

Next ==
    \/ print_help
    \/ parse_input
    \/ translate
    \/ send_err
    \/ send_ok
    \/ \E e \in JsonErrors : json_err(e)
    \/ \E ts \in Envelopes : json_ok(ts)

Spec == Init /\ [][Next]_vars

SpecLang == InitLang /\ [][Next]_vars

-----------------------------------------------------------------------------
(* Properties *)

JoinedArgs == join(args)
HelpAsked == \E p \in 1..Len(JoinedArgs) : HasAt(JoinedArgs, p, S_help)
Returned == input # NoInput
Ended(code) == pc = "exit" /\ status = <<code>>
OnlyPrinted(msg) == stdout = << <<msg>> >>
LanguageMsgs ==
    {NO_INPUT_MSG, NO_OUTPUT_MSG, INPUT_NOT_ALLOWED_MSG, OUTPUT_NOT_ALLOWED_MSG}
UsageMsgs == LanguageMsgs \cup {HELP_TEXT, NO_KEY_MSG}
PrintedUsage == \E k \in 1..Len(stdout) : stdout[k][1] \in UsageMsgs
PrintedApiError == \E k \in 1..Len(stdout) : stdout[k][1] = API_ERROR_PREFIX
PrintedTranslation ==
    \E k \in 1..Len(stdout) : Len(stdout[k]) = 1 /\ stdout[k][1] \notin UsageMsgs
AllLower(s) == \A k \in 1..Len(s) : s[k] \in LowerLetters
EnvLanguage(key) == IF env[key].os = "Some" THEN env[key].val ELSE <<>>

\* C1: when the joined arguments contain --help, the run prints the help text
\* and nothing else and ends with status 1; the credential is never read and no
\* request is sent.
C1_HelpFirst ==
    (pc # "parse_input" /\ HelpAsked) =>
        /\ Ended(1)
        /\ OnlyPrinted(HELP_TEXT)
        /\ ~access_key.read
        /\ requests = <<>>
        /\ response = NoResponse
        /\ ~Returned

\* --help in the middle of a word of the last argument, after both flags, with
\* every environment variable set
C1_Witness ==
    /\ pc = "exit"
    /\ \E n \in 2..Len(args) : args[n] = S_xhelps /\ args[1] = S_i
    /\ env.GT_INPUT_LANGUAGE = Some(S_en)
    /\ env.GOOGLE_ACCESS_KEY = Some(S_key)

\* C2: for non-empty resolved codes, parse_input returns a request exactly when
\* both codes are on the allow-list; otherwise the run ends with status 1 and a
\* not-allowed message.
C2_ExactlyAllowList ==
    (pc # "parse_input" /\ ~HelpAsked) =>
        LET in == Resolve(JoinedArgs)
        IN  (in.input_language # <<>> /\ in.output_language # <<>>) =>
                /\ Returned <=> (/\ in.input_language \in allowed_languages
                                 /\ in.output_language \in allowed_languages)
                /\ Returned => input = in
                /\ ~Returned =>
                       /\ Ended(1)
                       /\ \/ OnlyPrinted(INPUT_NOT_ALLOWED_MSG)
                          \/ OnlyPrinted(OUTPUT_NOT_ALLOWED_MSG)

\* a hyphenated code accepted as input and a three-letter code as output, both
\* from the environment
C2_Witness ==
    /\ Returned
    /\ input.input_language = S_zhCN
    /\ input.output_language = <<"h", "m", "n">>

\* C3: a returned request's input_language is the code after a leading -i when
\* the arguments supply one and the value of GT_INPUT_LANGUAGE otherwise (the
\* empty string when unset); likewise output_language with -o and
\* GT_OUTPUT_LANGUAGE.
C3_OverrideElseFallback ==
    Returned =>
        LET i == InputGroup(JoinedArgs)
            o == OutputGroup(JoinedArgs, i.end)
        IN  /\ input.input_language =
                   IF i.some THEN i.str ELSE EnvLanguage("GT_INPUT_LANGUAGE")
            /\ input.output_language =
                   IF o.some THEN o.str ELSE EnvLanguage("GT_OUTPUT_LANGUAGE")

\* C4: a returned request's text is what remains of the joined arguments after
\* the leading -i and -o tokens, trimmed.
C4_TextIsRemainder ==
    Returned =>
        LET i == InputGroup(JoinedArgs)
            o == OutputGroup(JoinedArgs, i.end)
        IN  input.text = trim(SubSeq(JoinedArgs, o.end, Len(JoinedArgs)))

\* C5: a run that has ended has status 0 or 1: 0 exactly when a translation or
\* a caught API error was printed, 1 after help or a usage error; a run that
\* received a response ends with 0.
C5_ExitStatus ==
    pc = "exit" =>
        /\ status \in {<<0>>, <<1>>}
        /\ status = <<0>> <=> (PrintedTranslation \/ PrintedApiError)
        /\ PrintedUsage => status = <<1>>
        /\ response.kind \in {"body_error", "shape_mismatch", "envelope"} => status = <<0>>

\* C6: when the body deserializes into the envelope, whatever the length of
\* translations, the run prints the first translatedText and ends with 0.
C6_EnvelopePrinted ==
    response.kind = "envelope" =>
        /\ Ended(0)
        /\ Len(response.translations) > 0 => OnlyPrinted(response.translations[1])

\* C7: at most one POST is sent, only for a validated request with a non-empty
\* credential, with exactly source, target and q of that request; no run that
\* printed help, a language message or the credential message has sent one.
C7_OneValidatedRequest ==
    /\ Len(requests) <= 1
    /\ requests # <<>> =>
           /\ Returned
           /\ input.input_language # <<>> /\ input.input_language \in allowed_languages
           /\ input.output_language # <<>> /\ input.output_language \in allowed_languages
           /\ access_key.read /\ access_key.val # <<>>
           /\ access_key.val = EnvLanguage("GOOGLE_ACCESS_KEY")
           /\ DOMAIN requests[1] = {"source", "target", "q"}
           /\ requests[1].source = input.input_language
           /\ requests[1].target = input.output_language
           /\ requests[1].q = input.text
           /\ ~PrintedUsage
    /\ PrintedUsage => requests = <<>>

\* a request with different languages and an empty text has been sent
C7_Witness ==
    /\ Len(requests) = 1
    /\ requests[1].source = S_en
    /\ requests[1].target = S_fr
    /\ requests[1].q = <<>>
    /\ pc = "exit"

\* C8: without --help the run stops at the first failing check of: input
\* empty, output empty, input not allowed, output not allowed, credential empty,
\* printing that check's message and no other; with GT_INPUT_LANGUAGE unset and
\* no -i the message is the missing-input one.
C8_CheckOrder ==
    (pc # "parse_input" /\ ~HelpAsked) =>
        LET in == Resolve(JoinedArgs)
            first ==
                IF in.input_language = <<>> THEN NO_INPUT_MSG
                ELSE IF in.output_language = <<>> THEN NO_OUTPUT_MSG
                ELSE IF in.input_language \notin allowed_languages
                     THEN INPUT_NOT_ALLOWED_MSG
                ELSE IF in.output_language \notin allowed_languages
                     THEN OUTPUT_NOT_ALLOWED_MSG
                ELSE IF EnvLanguage("GOOGLE_ACCESS_KEY") = <<>> THEN NO_KEY_MSG
                ELSE ""
        IN  /\ first \in LanguageMsgs =>
                   Ended(1) /\ OnlyPrinted(first) /\ ~Returned /\ ~access_key.read
            /\ first = NO_KEY_MSG =>
                   /\ Returned
                   /\ \/ pc = "translate" /\ stdout = <<>>
                      \/ Ended(1) /\ OnlyPrinted(NO_KEY_MSG)
            /\ first = "" => ~PrintedUsage
            /\ (/\ env.GT_INPUT_LANGUAGE.os = "None"
                /\ ~InputGroup(JoinedArgs).some) =>
                   Ended(1) /\ OnlyPrinted(NO_INPUT_MSG)

\* the input language is not allowed, the output language is not allowed
\* either, and there is no credential: only the input message is printed
C8_Witness ==
    /\ pc = "exit"
    /\ ~HelpAsked
    /\ Resolve(JoinedArgs).input_language = S_hello
    /\ Resolve(JoinedArgs).output_language = S_EN
    /\ env.GOOGLE_ACCESS_KEY = None
    /\ OnlyPrinted(INPUT_NOT_ALLOWED_MSG)

\* C9: a language of a returned request that differs from its environment
\* variable consists of lowercase letters only, a language with any other
\* character is the environment variable's value, and -i zh-CN hello never
\* gives input_language zh-CN.
C9_FlagCodesLowercase ==
    Returned =>
        /\ input.input_language # EnvLanguage("GT_INPUT_LANGUAGE") =>
               AllLower(input.input_language)
        /\ input.output_language # EnvLanguage("GT_OUTPUT_LANGUAGE") =>
               AllLower(input.output_language)
        /\ ~AllLower(input.input_language) =>
               input.input_language = EnvLanguage("GT_INPUT_LANGUAGE")
        /\ ~AllLower(input.output_language) =>
               input.output_language = EnvLanguage("GT_OUTPUT_LANGUAGE")
        /\ args = <<S_i, S_zhCN, S_hello>> => input.input_language # S_zhCN

\* -i zh-CN hello with GT_INPUT_LANGUAGE = zh-CN: the flag gives zh
C9_Witness ==
    /\ Returned
    /\ args = <<S_i, S_zhCN, S_hello>>
    /\ env.GT_INPUT_LANGUAGE = Some(S_zhCN)
    /\ input.input_language = S_zh
    /\ input.text = <<"-", "C", "N", " ", "h", "e", "l", "l", "o">>

\* C10 as stated: a transport failure while sending the request or receiving
\* the response ends the run abnormally with nothing printed; a body of the
\* wrong shape is caught, reported with the prefix, and the run ends with 0;
\* the request is never sent again.
C10_Original ==
    /\ Len(requests) <= 1
    /\ (pc = "exit" /\ response.kind \in {"send_error", "body_error"}) =>
           /\ status # <<0>>
           /\ stdout = <<>>
    /\ response.kind = "shape_mismatch" =>
           /\ Ended(0)
           /\ stdout = << <<API_ERROR_PREFIX, response.kind>> >>

\* C10 amended: when send() fails the run ends abnormally with nothing printed;
\* when send() has returned a response and json() fails, because the body could
\* not be read or because it has the wrong shape, the error is caught, reported
\* with the prefix, and the run ends with 0; the request is never sent again.
C10_Amended ==
    /\ Len(requests) <= 1
    /\ response.kind = "send_error" =>
           /\ Ended(PANIC_STATUS)
           /\ stdout = <<>>
    /\ response.kind \in {"body_error", "shape_mismatch"} =>
           /\ Ended(0)
           /\ stdout = << <<API_ERROR_PREFIX, response.kind>> >>
           /\ Len(requests) = 1

\* the body of a received response could not be read
C10_Witness ==
    /\ response.kind = "body_error"
    /\ pc = "exit"

====
